---- MODULE Spec2Model ----
(***************************************************************************)
(* The rule lifecycle registry of xstream/server/server/server.go: the     *)
(* control calls on rules, the monitor goroutine each start spawns, the    *)
(* ad-hoc query path with its watchdog, and the status reporter.           *)
(*                                                                         *)
(* A *RuleState is created together with its topology and its Topology     *)
(* field is never reassigned, so one index h in Handles names both the     *)
(* RuleState object and the topology it points to.  Each access to the     *)
(* registry map, to a RuleState field or to a topology is one step; a      *)
(* control call is the sequence of its steps, and steps of different       *)
(* callers, monitors and the watchdog interleave freely (net/rpc serves    *)
(* every request in a goroutine of its own and server.go takes no lock).   *)
(***************************************************************************)
EXTENDS Integers, Sequences, FiniteSets, Bags, TLC

\* ---------------------------------------------------------------- bounds
MaxCalls == 2          \* control calls the rpc server receives in one behaviour
MaxQueries == 3        \* ad-hoc query calls the rpc server receives in one behaviour
MaxResults == 1        \* fragments the query sink appends in one behaviour

\* ------------------------------------------------------------- constants
QUERY_RULE_ID == "internal-xstream_query_rule"
TickerSeconds == 5     \* time.NewTicker(time.Second * 5)
StaleSeconds == 10     \* w := 10 * time.Second
ResultsCap == 10       \* sinks.QR.Results = make([]string, 10)

RuleIds == {"r1", "r2"}
\* the rule name the control calls of SpecRules are about
CalledIds == {"r1"}
Ids == RuleIds \cup {QUERY_RULE_ID}
\* goroutines that run code of the server: those serving rpc requests,
\* StartUp's own and the watchdog init starts
Callers == {"c1", "c2"}
Procs == Callers \cup {"main", "wd"}
\* a call creates at most one RuleState, and StartUp one for each stored rule
Handles == 1..(Cardinality(RuleIds) + MaxCalls + MaxQueries)
NoHandle == 0

\* the values a context's Err() can report, and those a pipeline completes with
Errs == {"nil", "Canceled", "DeadlineExceeded", "other"}
SignalErrs == {"nil", "other"}
QueryErrs == {"other"}
NoSig == "nosig"

VARIABLES
  registry,    \* RuleRegistry: Ids -> Handles \cup {NoHandle}
  heap,        \* Handles -> the RuleState and its topology
  nalloc,      \* RuleStates created so far
  store,       \* rule names the Rule Store holds a definition for
  boot,        \* StartUp: the stored rule names it has still to start
  serving,     \* StartUp has reached http.Serve
  pc, op, arg, rs,   \* each caller: position, call, name, local rs
  out,         \* the error and the reply of the call that returned last
  ncalls,      \* control calls issued so far
  mon,         \* the bag of monitor goroutines doStartRule spawned, still running
  sinceFetch,  \* now - sinks.QR.LastFetch in seconds, saturated at StaleSeconds
  sinceCreate, \* now - the time CreateQuery last registered a query, in seconds,
               \* saturated at StaleSeconds (history)
  Results,     \* sinks.QR.Results
  nres,        \* fragments appended so far
  pre,         \* each caller: the entry and status of the name when the call was
               \* issued, and whether no call undoing it has overlapped it (history)
  live,        \* Ids -> StartRule returned success with no stop overlapping it and
               \* no earlier completion left to record, and since then no
               \* pipeline completed and no stop was issued (history)
  stopped,     \* Ids -> "yes": StopRule returned and no start overlapped it or
               \* followed; "racing": one overlapped it, none followed (history)
  booted,      \* the names StartUp has called StartRule for, in order, each with
               \* the error the call returned (history)
  succ         \* the handles of the last CreateQuery calls, two at most, that
               \* succeeded one after the other, none overlapping another
               \* CreateQuery and none failing in between (history)

callerVars == <<pc, op, arg, rs, out, ncalls, pre, boot, serving>>
ruleVars == <<registry, heap, nalloc, store, mon>>
queryVars == <<sinceFetch, sinceCreate, Results, nres>>
histVars == <<live, stopped, succ, booted>>
vars == <<registry, heap, nalloc, store, boot, serving, pc, op, arg, rs, out, ncalls,
          mon, sinceFetch, sinceCreate, Results, nres, pre,
          live, stopped, succ, booted>>

\* ------------------------------------------------- the Execution Handle
\* A topology that has not been created yet.
NoTopology ==
  [Name |-> "none", Triggered |-> FALSE, ctx |-> FALSE, cancelled |-> FALSE,
   seterr |-> "nil", executing |-> FALSE, drain |-> NoSig]

\* The RuleState{Name, Topology, Triggered: true} both creation paths build;
\* the topology comes with the context of its first execution.
NewRuleState(name) ==
  [Name |-> name, Triggered |-> TRUE, ctx |-> TRUE, cancelled |-> FALSE,
   seterr |-> "nil", executing |-> FALSE, drain |-> NoSig]

\* GetContext().Err(): the error recorded by SetError, else the cancellation.
CtxErr(t) ==
  IF t.seterr # "nil" THEN t.seterr
  ELSE IF t.cancelled THEN "Canceled" ELSE "nil"

\* Cancel(): cancels the context of the current execution.
Cancel(t) == [t EXCEPT !.cancelled = TRUE]

\* GetContext().SetError(e)
SetError(t, e) == [t EXCEPT !.seterr = e]

\* Open(): starts an execution and returns the channel its completion is sent
\* on.  The context is per execution: when the context at hand has terminated
\* the new execution gets a fresh one; a topology already running is left as
\* it is.
Open(t) ==
  IF CtxErr(t) # "nil"
  THEN [t EXCEPT !.executing = TRUE, !.cancelled = FALSE, !.seterr = "nil"]
  ELSE [t EXCEPT !.executing = TRUE]

\* The execution ends and sends value e on the channel Open returned.
Complete(t, e) == [t EXCEPT !.executing = FALSE, !.drain = e]

\* ------------------------------------------------------ the status reporter
NotFound == "Rule is not found"
Running == "Running with metrics:"
Manual == "Stopped: canceled manually."

\* GetStatusRule with context.DeadlineExceeded left to the default case.
StatusDeadlineByDefault(t) ==
  IF ~t.Triggered THEN Manual
  ELSE IF ~t.ctx THEN "Stopped: no context found."
  ELSE CASE CtxErr(t) = "nil" -> Running
         [] CtxErr(t) = "Canceled" -> "Stopped: canceled by error."
         [] OTHER -> "Stopped: " \o CtxErr(t) \o "."

\* GetStatusRule's reply for RuleState t (the metrics block itself is left out).
StatusOfState(t) ==
  IF ~t.Triggered THEN Manual
  ELSE IF ~t.ctx THEN "Stopped: no context found."
  ELSE CASE CtxErr(t) = "nil" -> Running
         [] CtxErr(t) = "Canceled" -> "Stopped: canceled by error."
         [] CtxErr(t) = "DeadlineExceeded" -> "Stopped: deadline exceed."
         [] OTHER -> "Stopped: " \o CtxErr(t) \o "."

\* What GetStatusRule(name) returns in the current state.
StatusOf(name) ==
  IF registry[name] = NoHandle
  THEN [err |-> NotFound, reply |-> ""]
  ELSE [err |-> "nil", reply |-> StatusOfState(heap[registry[name]])]

\* ------------------------------------------------------------ control calls
QueryOps == {"CreateQuery", "GetQueryResult"}
RuleOps == {"CreateRule", "StartRule", "StopRule", "RestartRule", "DropRule",
            "GetStatusRule"}
Starters == {"CreateRule", "StartRule", "RestartRule"}
Stoppers == {"StopRule", "RestartRule", "DropRule"}

\* The calls that undo what call o does to a rule; a CreateQuery replaces the
\* query of another.
Conflicts(o) ==
  (IF o \in Starters THEN Stoppers ELSE {})
    \cup (IF o \in Stoppers THEN Starters ELSE {})
    \cup (IF o = "CreateQuery" THEN {"CreateQuery"} ELSE {})

\* Some call in Kinds on name is in progress for a caller other than c.
InFlight(c, Kinds, name) ==
  \E d \in Procs \ {c} : pc[d] # "idle" /\ op[d] \in Kinds /\ arg[d] = name

NoOut == [err |-> "nil", reply |-> ""]
NoPre == [h |-> NoHandle, running |-> FALSE, alone |-> FALSE]

\* Callers that are idle do not differ, so the next request goes to the first.
FirstIdle(c) == c = "c1" \/ pc["c1"] # "idle"

\* The rpc server dispatches a request: caller c enters handler o for name.
Call(c, o, name) ==
  /\ serving
  /\ pc[c] = "idle"
  /\ FirstIdle(c)
  /\ ncalls < (IF o \in RuleOps THEN MaxCalls ELSE MaxQueries)
  /\ ncalls' = ncalls + 1
  /\ op' = [op EXCEPT ![c] = o]
  /\ arg' = [arg EXCEPT ![c] = name]
  /\ pc' = [pc EXCEPT ![c] = IF o = "RestartRule" THEN "StopRule" ELSE o]
  /\ pre' = [d \in Procs |->
               IF d = c
               THEN [h |-> registry[name],
                     running |-> StatusOf(name).reply = Running,
                     alone |-> ~InFlight(c, Conflicts(o), name)]
               ELSE IF o \in Conflicts(op[d]) /\ arg[d] = name
                    THEN [pre[d] EXCEPT !.alone = FALSE]
                    ELSE pre[d]]
  /\ live' = IF o \in Stoppers THEN [live EXCEPT ![name] = FALSE] ELSE live
  /\ stopped' = IF o \in Starters THEN [stopped EXCEPT ![name] = "no"] ELSE stopped
  /\ UNCHANGED <<ruleVars, queryVars, rs, out, boot, serving, succ, booted>>

\* StartUp leaving its loop at the first StartRule that fails.
StartUpStopsAtFailure ==
  /\ ~serving
  /\ pc["main"] = "idle"
  /\ IF boot # <<>> /\ (booted = <<>> \/ booted[Len(booted)].err = "nil")
     THEN /\ boot' = Tail(boot)
          /\ op' = [op EXCEPT !["main"] = "StartRule"]
          /\ arg' = [arg EXCEPT !["main"] = Head(boot)]
          /\ pc' = [pc EXCEPT !["main"] = "StartRule"]
          /\ pre' = [pre EXCEPT !["main"] = [NoPre EXCEPT !.alone = TRUE]]
          /\ UNCHANGED serving
     ELSE /\ serving' = TRUE
          /\ UNCHANGED <<boot, op, arg, pc, pre>>
  /\ UNCHANGED <<ruleVars, queryVars, rs, out, ncalls, histVars>>

\* StartUp: server.StartRule(rule, &reply) for the next name GetAllRules gave,
\* and, when none is left, the rpc server starts.
StartUp ==
  /\ ~serving
  /\ pc["main"] = "idle"
  /\ IF boot # <<>>
     THEN /\ boot' = Tail(boot)
          /\ op' = [op EXCEPT !["main"] = "StartRule"]
          /\ arg' = [arg EXCEPT !["main"] = Head(boot)]
          /\ pc' = [pc EXCEPT !["main"] = "StartRule"]
          /\ pre' = [pre EXCEPT !["main"] = [NoPre EXCEPT !.alone = TRUE]]
          /\ UNCHANGED serving
     ELSE /\ serving' = TRUE
          /\ UNCHANGED <<boot, op, arg, pc, pre>>
  /\ UNCHANGED <<ruleVars, queryVars, rs, out, ncalls, histVars>>

\* No completion of topology h is waiting to be received or being recorded.
Settled(h) ==
  /\ heap[h].drain = NoSig
  /\ \A m \in BagToSet(mon) : m.tp = h => m.pc \in {"Open", "receive"}

\* The handler of caller c returns e (an error) or "nil" with reply r.
Return(c, e, r) ==
  /\ pc' = [pc EXCEPT ![c] = "idle"]
  /\ op' = [op EXCEPT ![c] = "none"]
  /\ arg' = [arg EXCEPT ![c] = "none"]
  /\ rs' = [rs EXCEPT ![c] = NoHandle]
  /\ pre' = [pre EXCEPT ![c] = NoPre]
  /\ out' = [err |-> e, reply |-> r]
  /\ UNCHANGED <<boot, serving>>
  /\ live' = IF op[c] = "StartRule" /\ e = "nil" /\ pre[c].alone /\ Settled(rs[c])
             THEN [live EXCEPT ![arg[c]] = TRUE] ELSE live
  /\ succ' = IF op[c] # "CreateQuery" THEN succ
             ELSE IF e # "nil" \/ ~pre[c].alone THEN <<>>
             ELSE IF succ = <<>> THEN <<rs[c]>>
             ELSE <<succ[Len(succ)], rs[c]>>
  /\ booted' = IF c = "main" THEN Append(booted, [name |-> arg[c], err |-> e])
               ELSE booted

\* The handler of caller c moves on to position p.
Goto(c, p) ==
  /\ pc' = [pc EXCEPT ![c] = p]
  /\ UNCHANGED <<op, arg, pre, out, live, boot, serving, succ, booted>>

\* CreateRule: ruleProcessor.ExecCreate persists the definition or fails.
CreateRule(c) ==
  /\ pc[c] = "CreateRule"
  /\ \/ /\ arg[c] \notin store
        /\ store' = store \cup {arg[c]}
        /\ Goto(c, "createRuleState")
        /\ UNCHANGED rs
     \/ /\ Return(c, "Create rule error", "")
        /\ UNCHANGED store
  /\ UNCHANGED <<registry, heap, nalloc, mon, ncalls, stopped, queryVars>>

\* createRuleState putting a RuleState in the registry also when ExecInitRule
\* fails.
createRuleStateRegistersFailed(c) ==
  /\ pc[c] = "createRuleState"
  /\ nalloc < Cardinality(Handles)
  /\ nalloc' = nalloc + 1
  /\ heap' = [heap EXCEPT ![nalloc + 1] = NewRuleState(arg[c])]
  /\ registry' = [registry EXCEPT ![arg[c]] = nalloc + 1]
  /\ \/ rs' = [rs EXCEPT ![c] = nalloc + 1] /\ Goto(c, "doStartRule")
     \/ Return(c, "init error", "")
  /\ UNCHANGED <<store, mon, ncalls, stopped, queryVars>>

\* createRuleState: ExecInitRule builds the topology or fails; on success the
\* new RuleState is put in the registry over whatever entry the id had.
createRuleState(c) ==
  /\ pc[c] = "createRuleState"
  /\ \/ /\ nalloc < Cardinality(Handles)
        /\ nalloc' = nalloc + 1
        /\ heap' = [heap EXCEPT ![nalloc + 1] = NewRuleState(arg[c])]
        /\ registry' = [registry EXCEPT ![arg[c]] = nalloc + 1]
        /\ rs' = [rs EXCEPT ![c] = nalloc + 1]
        /\ Goto(c, "doStartRule")
     \/ /\ Return(c, "init error", IF op[c] = "CreateRule" THEN "Rule was created" ELSE "")
        /\ UNCHANGED <<registry, heap, nalloc>>
  /\ UNCHANGED <<store, mon, ncalls, stopped, queryVars>>

\* StartRule: the registry lookup that decides between the two paths.
StartRule(c) ==
  /\ pc[c] = "StartRule"
  /\ IF registry[arg[c]] # NoHandle
     THEN /\ rs' = [rs EXCEPT ![c] = registry[arg[c]]]
          /\ Goto(c, "doStartRule")
     ELSE /\ Goto(c, "GetRuleByName")
          /\ UNCHANGED rs
  /\ UNCHANGED <<ruleVars, ncalls, stopped, queryVars>>

\* StartRule, no entry: ruleProcessor.GetRuleByName fails for an unknown name.
GetRuleByName(c) ==
  /\ pc[c] = "GetRuleByName"
  /\ IF arg[c] \in store
     THEN Goto(c, "createRuleState") /\ UNCHANGED rs
     ELSE Return(c, "not found in store", "")
  /\ UNCHANGED <<ruleVars, ncalls, stopped, queryVars>>

\* A monitor goroutine that has not run yet, for topology h.
NewMonitor(h) == [tp |-> h, pc |-> "Open", err |-> "nil"]

\* doStartRule: sets Triggered and spawns the monitor goroutine; then
\* CreateRule, StartRule and RestartRule return success.
doStartRule(c) ==
  /\ pc[c] = "doStartRule"
  /\ heap' = [heap EXCEPT ![rs[c]].Triggered = TRUE]
  /\ mon' = mon (+) SetToBag({NewMonitor(rs[c])})
  /\ Return(c, "nil", CASE op[c] = "CreateRule" -> "Rule was created"
                        [] op[c] = "StartRule" -> "Rule was started"
                        [] OTHER -> "Rule was restarted.")
  /\ UNCHANGED <<registry, nalloc, store, ncalls, stopped, queryVars>>

\* StopRule's return: to the caller, or on to the rest of RestartRule and
\* DropRule, which pass StopRule's nil error on.
StopRuleReturns(c, r) ==
  /\ CASE op[c] = "RestartRule" -> Goto(c, "StartRule") /\ rs' = [rs EXCEPT ![c] = NoHandle]
       [] op[c] = "DropRule" -> Return(c, "nil", "Rule is dropped")
       [] OTHER -> Return(c, "nil", r)
  /\ stopped' = IF registry[arg[c]] # NoHandle /\ op[c] # "RestartRule"
                THEN [stopped EXCEPT ![arg[c]] =
                        IF pre[c].alone THEN "yes" ELSE "racing"]
                ELSE stopped

\* StopRule answering an unknown name with an error.
StopRuleRejectsUnknown(c) ==
  /\ pc[c] = "StopRule"
  /\ IF registry[arg[c]] # NoHandle
     THEN /\ rs' = [rs EXCEPT ![c] = registry[arg[c]]]
          /\ Goto(c, "Cancel")
     ELSE Return(c, "Rule was not found.", "")
  /\ UNCHANGED <<ruleVars, ncalls, queryVars, stopped>>

\* StopRule: the registry lookup; an unknown name is answered, not an error.
StopRule(c) ==
  /\ pc[c] = "StopRule"
  /\ IF registry[arg[c]] # NoHandle
     THEN /\ rs' = [rs EXCEPT ![c] = registry[arg[c]]]
          /\ Goto(c, "Cancel")
          /\ UNCHANGED stopped
     ELSE StopRuleReturns(c, "Rule was not found.")
  /\ UNCHANGED <<ruleVars, ncalls, queryVars>>

\* StopRule waiting, before it goes on, for the execution to have ended.
StopRuleCancelWaits(c) ==
  /\ pc[c] = "Cancel"
  /\ ~heap[rs[c]].executing
  /\ heap' = [heap EXCEPT ![rs[c]] = Cancel(@)]
  /\ Goto(c, "Untrigger")
  /\ UNCHANGED <<registry, nalloc, store, mon, rs, ncalls, stopped, queryVars>>

\* StopRule: (*rs.Topology).Cancel()
StopRuleCancel(c) ==
  /\ pc[c] = "Cancel"
  /\ heap' = [heap EXCEPT ![rs[c]] = Cancel(@)]
  /\ Goto(c, "Untrigger")
  /\ UNCHANGED <<registry, nalloc, store, mon, rs, ncalls, stopped, queryVars>>

\* StopRule without its rs.Triggered = false.
UntriggerSkipped(t) == t

\* rs.Triggered = false
Untrigger(t) == [t EXCEPT !.Triggered = FALSE]

\* StopRule: rs.Triggered = false, and StopRule returns.
StopRuleUntrigger(c) ==
  /\ pc[c] = "Untrigger"
  /\ heap' = [heap EXCEPT ![rs[c]] = Untrigger(@)]
  /\ StopRuleReturns(c, "Rule was stopped.")
  /\ UNCHANGED <<registry, nalloc, store, mon, ncalls, queryVars>>

\* DropRule: ruleProcessor.ExecDrop deletes the stored definition or fails;
\* then StopRule.  The registry entry is not deleted.
DropRule(c) ==
  /\ pc[c] = "DropRule"
  /\ \/ /\ arg[c] \in store
        /\ store' = store \ {arg[c]}
        /\ Goto(c, "StopRule")
        /\ UNCHANGED rs
     \/ /\ Return(c, "Drop rule error", "")
        /\ UNCHANGED store
  /\ UNCHANGED <<registry, heap, nalloc, mon, ncalls, stopped, queryVars>>

\* GetStatusRule: reads the entry and answers; it writes nothing.
GetStatusRule(c) ==
  /\ pc[c] = "GetStatusRule"
  /\ Return(c, StatusOf(arg[c]).err, StatusOf(arg[c]).reply)
  /\ UNCHANGED <<ruleVars, ncalls, stopped, queryVars>>

\* ------------------------------------------------------ monitor goroutines
\* Monitor m moves on to position p, or ends.
MonitorStep(m, n) == (mon (-) SetToBag({m})) (+) SetToBag({n})
MonitorEnds(m) == mon (-) SetToBag({m})

\* case err := <-tp.Open(): the goroutine calls Open and blocks on its channel.
MonitorOpen(m) ==
  /\ m.pc = "Open"
  /\ heap' = [heap EXCEPT ![m.tp] = Open(@)]
  /\ mon' = MonitorStep(m, [m EXCEPT !.pc = "receive"])
  /\ UNCHANGED <<registry, nalloc, store, callerVars, histVars, queryVars>>

\* The execution of topology h ends and signals its completion with value e.
PipelineCompletes(h, e) ==
  /\ heap[h].executing
  /\ heap[h].drain = NoSig
  /\ heap' = [heap EXCEPT ![h] = Complete(@, e)]
  /\ live' = [live EXCEPT ![heap[h].Name] = FALSE]
  /\ UNCHANGED <<registry, nalloc, store, mon, callerVars, stopped, succ, booted,
                  queryVars>>

\* One of the goroutines blocked on the topology's channel receives the value.
MonitorReceive(m) ==
  /\ m.pc = "receive"
  /\ heap[m.tp].drain # NoSig
  /\ mon' = MonitorStep(m, [m EXCEPT !.pc = "SetError", !.err = heap[m.tp].drain])
  /\ heap' = [heap EXCEPT ![m.tp].drain = NoSig]
  /\ UNCHANGED <<registry, nalloc, store, callerVars, histVars, queryVars>>

\* The monitor going on to Cancel without recording the error.
MonitorSkipsSetError(m) ==
  /\ m.pc = "SetError"
  /\ mon' = MonitorStep(m, [m EXCEPT !.pc = "Cancel"])
  /\ UNCHANGED <<registry, heap, nalloc, store, callerVars, histVars, queryVars>>

\* tp.GetContext().SetError(err)
MonitorSetError(m) ==
  /\ m.pc = "SetError"
  /\ heap' = [heap EXCEPT ![m.tp] = SetError(@, m.err)]
  /\ mon' = MonitorStep(m, [m EXCEPT !.pc = "Cancel"])
  /\ UNCHANGED <<registry, nalloc, store, callerVars, histVars, queryVars>>

\* tp.Cancel(), after which the goroutine ends.
MonitorCancel(m) ==
  /\ m.pc = "Cancel"
  /\ heap' = [heap EXCEPT ![m.tp] = Cancel(@)]
  /\ mon' = MonitorEnds(m)
  /\ UNCHANGED <<registry, nalloc, store, callerVars, histVars, queryVars>>

\* ------------------------------------------------------- the ad-hoc query
\* continue: the watchdog goes back to wait for the next tick.
WatchdogWaits ==
  /\ pc' = [pc EXCEPT !["wd"] = "idle"]
  /\ pre' = [pre EXCEPT !["wd"] = NoPre]
  /\ rs' = [rs EXCEPT !["wd"] = NoHandle]
  /\ UNCHANGED <<op, arg, out, live, boot, serving, succ, booted>>

\* stopQuery is over: CreateQuery goes on to ExecQuery, the watchdog to its
\* next tick.
stopQueryReturns(c) ==
  IF c = "wd" THEN WatchdogWaits
  ELSE Goto(c, "ExecQuery") /\ rs' = [rs EXCEPT ![c] = NoHandle]

\* CreateQuery: if _, ok := registry[QUERY_RULE_ID]; ok { stopQuery() }
CreateQuery(c) ==
  /\ pc[c] = "CreateQuery"
  /\ Goto(c, IF registry[QUERY_RULE_ID] # NoHandle THEN "stopQuery" ELSE "ExecQuery")
  /\ UNCHANGED <<ruleVars, queryVars, rs, ncalls, stopped>>

\* stopQuery: if rs, ok := registry[QUERY_RULE_ID]; ok
stopQuery(c) ==
  /\ pc[c] = "stopQuery"
  /\ IF registry[QUERY_RULE_ID] # NoHandle
     THEN /\ rs' = [rs EXCEPT ![c] = registry[QUERY_RULE_ID]]
          /\ Goto(c, "stopQueryCancel")
     ELSE stopQueryReturns(c)
  /\ UNCHANGED <<ruleVars, queryVars, ncalls, stopped>>

\* stopQuery: (*rs.Topology).Cancel()
stopQueryCancel(c) ==
  /\ pc[c] = "stopQueryCancel"
  /\ heap' = [heap EXCEPT ![rs[c]] = Cancel(@)]
  /\ Goto(c, "stopQueryDelete")
  /\ UNCHANGED <<registry, nalloc, store, mon, queryVars, rs, ncalls, stopped>>

\* stopQuery: delete(registry, QUERY_RULE_ID)
stopQueryDelete(c) ==
  /\ pc[c] = "stopQueryDelete"
  /\ registry' = [registry EXCEPT ![QUERY_RULE_ID] = NoHandle]
  /\ stopQueryReturns(c)
  /\ UNCHANGED <<heap, nalloc, store, mon, queryVars, ncalls, stopped>>

\* The topology ExecQuery returns: the query compiled and its pipeline started.
NewQuery == [NewRuleState(QUERY_RULE_ID) EXCEPT !.executing = TRUE]

\* CreateQuery: NewRuleProcessor(...).ExecQuery compiles and starts the query,
\* or fails.
ExecQuery(c) ==
  /\ pc[c] = "ExecQuery"
  /\ \/ /\ nalloc' = nalloc + 1
        /\ heap' = [heap EXCEPT ![nalloc + 1] = NewQuery]
        /\ rs' = [rs EXCEPT ![c] = nalloc + 1]
        /\ Goto(c, "register")
     \/ /\ Return(c, "query error", "")
        /\ UNCHANGED <<heap, nalloc>>
  /\ UNCHANGED <<registry, store, mon, queryVars, ncalls, stopped>>

\* CreateQuery: registry[QUERY_RULE_ID] = rs, and the call returns.
RegisterQuery(c) ==
  /\ pc[c] = "register"
  /\ registry' = [registry EXCEPT ![QUERY_RULE_ID] = rs[c]]
  /\ Return(c, "nil", "Query was submit successfully.")
  /\ sinceCreate' = 0
  /\ UNCHANGED <<heap, nalloc, store, mon, sinceFetch, Results, nres, ncalls, stopped>>

\* The pipeline of a running query ends by itself with value e: the error is
\* recorded on its context and the topology is cancelled.
QueryDies(h, e) ==
  /\ heap[h].Name = QUERY_RULE_ID
  /\ heap[h].executing
  /\ heap' = [heap EXCEPT ![h] = Cancel(SetError(Complete(@, NoSig), e))]
  /\ UNCHANGED <<registry, nalloc, store, mon, queryVars, callerVars, histVars>>

\* The sink of a running query appends a fragment to sinks.QR.Results.
SinkCollects ==
  /\ \E h \in Handles : heap[h].Name = QUERY_RULE_ID /\ heap[h].executing
  /\ nres < MaxResults
  /\ nres' = nres + 1
  /\ Results' = Append(Results, "row")
  /\ UNCHANGED <<ruleVars, sinceFetch, sinceCreate, callerVars, histVars>>

\* GetQueryResult: if rs, ok := registry[QUERY_RULE_ID]; ok
GetQueryResult(c) ==
  /\ pc[c] = "GetQueryResult"
  /\ IF registry[QUERY_RULE_ID] # NoHandle
     THEN /\ rs' = [rs EXCEPT ![c] = registry[QUERY_RULE_ID]]
          /\ Goto(c, "queryErr")
     ELSE /\ Goto(c, "LastFetch")
          /\ UNCHANGED rs
  /\ UNCHANGED <<ruleVars, queryVars, ncalls, stopped>>

\* GetQueryResult with its error check left out.
QueryFailedIgnored(t) == FALSE

\* c != nil && c.Err() != nil
QueryFailed(t) == t.ctx /\ CtxErr(t) # "nil"

\* GetQueryResult setting LastFetch before it returns the context's error.
GetQueryResultErrTouches(c) ==
  /\ pc[c] = "queryErr"
  /\ IF QueryFailed(heap[rs[c]])
     THEN Return(c, CtxErr(heap[rs[c]]), "") /\ sinceFetch' = 0
     ELSE Goto(c, "LastFetch") /\ UNCHANGED <<rs, sinceFetch>>
  /\ UNCHANGED <<ruleVars, sinceCreate, Results, nres, ncalls, stopped>>

\* GetQueryResult: if c != nil && c.Err() != nil { return c.Err() }
GetQueryResultErr(c) ==
  /\ pc[c] = "queryErr"
  /\ IF QueryFailed(heap[rs[c]])
     THEN Return(c, CtxErr(heap[rs[c]]), "")
     ELSE Goto(c, "LastFetch") /\ UNCHANGED rs
  /\ UNCHANGED <<ruleVars, queryVars, ncalls, stopped>>

\* strings.Join(Results, "")
RECURSIVE Join(_)
Join(q) == IF q = <<>> THEN "" ELSE Head(q) \o Join(Tail(q))

\* GetQueryResult: sinks.QR.LastFetch = time.Now(); then, under sinks.QR.Mux,
\* the reply is the joined fragments and Results is set to make([]string, 10),
\* or with no fragment the reply is "".  (The two writes are one step: the
\* watchdog reads only LastFetch and the sink writes only Results.)
GetQueryResultDrain(c) ==
  /\ pc[c] = "LastFetch"
  /\ sinceFetch' = 0
  /\ IF Len(Results) > 0
     THEN /\ Results' = [i \in 1..ResultsCap |-> ""]
          /\ Return(c, "nil", Join(Results))
     ELSE /\ UNCHANGED Results
          /\ Return(c, "nil", "")
  /\ UNCHANGED <<ruleVars, sinceCreate, nres, ncalls, stopped>>

\* ----------------------------------------------------------- the watchdog
\* <-ticker.C: TickerSeconds have passed since the last tick; the clock is
\* read at the ticker's resolution.
Tick ==
  /\ pc["wd"] = "idle"
  /\ sinceFetch' = IF sinceFetch + TickerSeconds >= StaleSeconds
                   THEN StaleSeconds ELSE sinceFetch + TickerSeconds
  /\ sinceCreate' = IF sinceCreate + TickerSeconds >= StaleSeconds
                    THEN StaleSeconds ELSE sinceCreate + TickerSeconds
  /\ Goto("wd", "watch")
  /\ UNCHANGED <<ruleVars, Results, nres, rs, ncalls, stopped>>

\* if _, ok := registry[QUERY_RULE_ID]; !ok { continue }
\* (pre records the entry the watchdog found.)
WatchdogLooks ==
  /\ pc["wd"] = "watch"
  /\ IF registry[QUERY_RULE_ID] # NoHandle
     THEN /\ pc' = [pc EXCEPT !["wd"] = "stale"]
          /\ pre' = [pre EXCEPT !["wd"] = [NoPre EXCEPT !.h = registry[QUERY_RULE_ID]]]
          /\ UNCHANGED <<op, arg, out, live, boot, serving, succ, booted, rs>>
     ELSE WatchdogWaits
  /\ UNCHANGED <<ruleVars, queryVars, ncalls, stopped>>

\* if v := n.Sub(sinks.QR.LastFetch); v >= w { stopQuery() }
WatchdogStale ==
  /\ pc["wd"] = "stale"
  /\ IF sinceFetch >= StaleSeconds
     THEN Goto("wd", "stopQuery") /\ UNCHANGED rs
     ELSE WatchdogWaits
  /\ UNCHANGED <<ruleVars, queryVars, ncalls, stopped>>

Init ==
  /\ registry = [i \in Ids |-> NoHandle]
  /\ heap = [h \in Handles |-> NoTopology]
  /\ nalloc = 0
  /\ store \in SUBSET RuleIds
  /\ boot \in {q \in UNION {[1..n -> store] : n \in 0..Cardinality(store)} :
                 {q[i] : i \in DOMAIN q} = store}
  /\ serving = FALSE
  /\ pc = [c \in Procs |-> "idle"]
  /\ op = [c \in Procs |-> "none"]
  /\ arg = [c \in Procs |-> "none"]
  /\ rs = [c \in Procs |-> NoHandle]
  /\ out = NoOut
  /\ ncalls = 0
  /\ mon = EmptyBag
  /\ sinceFetch = StaleSeconds
  /\ sinceCreate = StaleSeconds
  /\ Results = <<>>
  /\ nres = 0
  /\ pre = [c \in Procs |-> NoPre]
  /\ live = [i \in Ids |-> FALSE]
  /\ stopped = [i \in Ids |-> "no"]
  /\ succ = <<>>
  /\ booted = <<>>

NextRules ==
  \/ StartUp
  \/ \E c \in Callers, o \in RuleOps, name \in CalledIds : Call(c, o, name)
  \/ \E c \in Callers : CreateRule(c)
  \/ \E c \in Procs : createRuleState(c)
  \/ \E c \in Procs : StartRule(c)
  \/ \E c \in Procs : GetRuleByName(c)
  \/ \E c \in Procs : doStartRule(c)
  \/ \E c \in Callers : StopRule(c)
  \/ \E c \in Callers : StopRuleCancel(c)
  \/ \E c \in Callers : StopRuleUntrigger(c)
  \/ \E c \in Callers : DropRule(c)
  \/ \E c \in Callers : GetStatusRule(c)
  \/ \E m \in BagToSet(mon) : MonitorOpen(m)
  \/ \E h \in Handles, e \in SignalErrs : PipelineCompletes(h, e)
  \/ \E m \in BagToSet(mon) : MonitorReceive(m)
  \/ \E m \in BagToSet(mon) : MonitorSetError(m)
  \/ \E m \in BagToSet(mon) : MonitorCancel(m)

\* The control calls on one rule, which the store holds at startup or not.
InitRules == Init /\ store \subseteq CalledIds

SpecRules == InitRules /\ [][NextRules]_vars

\* The goroutines doStartRule spawns are scheduled: one that can take its next
\* step eventually takes it.  Nothing is assumed of the callers.
MonitorsRun ==
  /\ WF_vars(\E m \in BagToSet(mon) : MonitorOpen(m))
  /\ WF_vars(\E m \in BagToSet(mon) : MonitorReceive(m))
  /\ WF_vars(\E m \in BagToSet(mon) : MonitorSetError(m))
  /\ WF_vars(\E m \in BagToSet(mon) : MonitorCancel(m))

SpecRulesFair == SpecRules /\ MonitorsRun

\* The next step of the rule handler caller c is in.
Handler(c) ==
  \/ CreateRule(c)
  \/ createRuleState(c)
  \/ StartRule(c)
  \/ GetRuleByName(c)
  \/ doStartRule(c)
  \/ StopRule(c)
  \/ StopRuleCancel(c)
  \/ StopRuleUntrigger(c)
  \/ DropRule(c)
  \/ GetStatusRule(c)

\* The goroutine serving a request is scheduled; nothing is assumed of the
\* pipelines and of the monitors, which may never complete or never run.
HandlersRun == \A c \in Callers : WF_vars(Handler(c))

SpecRulesServed == SpecRules /\ HandlersRun

\* StartUp alone, up to http.Serve, for every content of the store and every
\* order GetAllRules can give, with the monitors of the rules it starts.
NextStartUp ==
  \/ StartUp
  \/ StartRule("main")
  \/ GetRuleByName("main")
  \/ createRuleState("main")
  \/ doStartRule("main")
  \/ \E m \in BagToSet(mon) : MonitorOpen(m)
  \/ \E h \in Handles, e \in SignalErrs : PipelineCompletes(h, e)
  \/ \E m \in BagToSet(mon) : MonitorReceive(m)
  \/ \E m \in BagToSet(mon) : MonitorSetError(m)
  \/ \E m \in BagToSet(mon) : MonitorCancel(m)

SpecStartUp == Init /\ [][NextStartUp]_vars

\* The ad-hoc query path, served with no rule stored.
InitQuery == Init /\ store = {}

NextQuery ==
  \/ StartUp
  \/ \E c \in Callers, o \in QueryOps : Call(c, o, QUERY_RULE_ID)
  \/ \E c \in Callers : CreateQuery(c)
  \/ \E c \in Callers \cup {"wd"} : stopQuery(c)
  \/ \E c \in Callers \cup {"wd"} : stopQueryCancel(c)
  \/ \E c \in Callers \cup {"wd"} : stopQueryDelete(c)
  \/ \E c \in Callers : ExecQuery(c)
  \/ \E c \in Callers : RegisterQuery(c)
  \/ \E h \in Handles, e \in QueryErrs : QueryDies(h, e)
  \/ SinkCollects
  \/ \E c \in Callers : GetQueryResult(c)
  \/ \E c \in Callers : GetQueryResultErr(c)
  \/ \E c \in Callers : GetQueryResultDrain(c)
  \/ Tick
  \/ WatchdogLooks
  \/ WatchdogStale

SpecQuery == InitQuery /\ [][NextQuery]_vars

\* The rpc server dispatches a GetQueryResult request to caller c; a consumer
\* polls as long as it likes, so these requests are not counted.
Poll(c) ==
  /\ serving
  /\ pc[c] = "idle"
  /\ op' = [op EXCEPT ![c] = "GetQueryResult"]
  /\ arg' = [arg EXCEPT ![c] = QUERY_RULE_ID]
  /\ pc' = [pc EXCEPT ![c] = "GetQueryResult"]
  /\ UNCHANGED <<ruleVars, queryVars, histVars, rs, out, ncalls, pre, boot, serving>>

\* The ad-hoc query path with one client that submits queries and a consumer
\* that may poll for ever.
NextPolling ==
  \/ StartUp
  \/ Call("c1", "CreateQuery", QUERY_RULE_ID)
  \/ Poll("c2")
  \/ \E c \in Callers : CreateQuery(c)
  \/ \E c \in Callers \cup {"wd"} : stopQuery(c)
  \/ \E c \in Callers \cup {"wd"} : stopQueryCancel(c)
  \/ \E c \in Callers \cup {"wd"} : stopQueryDelete(c)
  \/ \E c \in Callers : ExecQuery(c)
  \/ \E c \in Callers : RegisterQuery(c)
  \/ \E h \in Handles, e \in QueryErrs : QueryDies(h, e)
  \/ SinkCollects
  \/ \E c \in Callers : GetQueryResult(c)
  \/ \E c \in Callers : GetQueryResultErr(c)
  \/ \E c \in Callers : GetQueryResultDrain(c)
  \/ Tick
  \/ WatchdogLooks
  \/ WatchdogStale

\* The ticker keeps ticking and the watchdog goroutine is scheduled; nothing is
\* assumed of the callers, of the sink and of the pipeline.
WatchdogRuns ==
  /\ WF_vars(Tick)
  /\ WF_vars(WatchdogLooks)
  /\ WF_vars(WatchdogStale)
  /\ WF_vars(stopQuery("wd"))
  /\ WF_vars(stopQueryCancel("wd"))
  /\ WF_vars(stopQueryDelete("wd"))

SpecPolling == InitQuery /\ [][NextPolling]_vars /\ WatchdogRuns

\* The two readers, GetStatusRule and GetQueryResult, on every state an entry
\* can be in: handle 1 is the entry of rule r1 and handle 2 that of the ad-hoc
\* query, when they have one.
EntryStates(name) ==
  {t \in [Name : {name}, Triggered : BOOLEAN, ctx : BOOLEAN, cancelled : BOOLEAN,
          seterr : Errs, executing : {FALSE}, drain : {NoSig}] :
     ~t.ctx => (~t.cancelled /\ t.seterr = "nil")}

InitStatus ==
  /\ \E t1 \in EntryStates("r1") \cup {NoTopology},
        t2 \in EntryStates(QUERY_RULE_ID) \cup {NoTopology} :
       /\ heap = [h \in Handles |-> IF h = 1 THEN t1 ELSE IF h = 2 THEN t2
                                    ELSE NoTopology]
       /\ registry = [i \in Ids |->
                        IF i = "r1" /\ t1 # NoTopology THEN 1
                        ELSE IF i = QUERY_RULE_ID /\ t2 # NoTopology THEN 2
                        ELSE NoHandle]
  /\ nalloc = 2
  /\ store = {}
  /\ boot = <<>>
  /\ serving = TRUE
  /\ pc = [c \in Procs |-> "idle"]
  /\ op = [c \in Procs |-> "none"]
  /\ arg = [c \in Procs |-> "none"]
  /\ rs = [c \in Procs |-> NoHandle]
  /\ out = NoOut
  /\ ncalls = 0
  /\ mon = EmptyBag
  /\ sinceFetch = StaleSeconds
  /\ sinceCreate = StaleSeconds
  /\ Results \in {<<>>, <<"row">>}
  /\ nres = Len(Results)
  /\ pre = [c \in Procs |-> NoPre]
  /\ live = [i \in Ids |-> FALSE]
  /\ stopped = [i \in Ids |-> "no"]
  /\ succ = <<>>
  /\ booted = <<>>

NextStatus ==
  \/ \E c \in Callers, name \in Ids : Call(c, "GetStatusRule", name)
  \/ \E c \in Callers : Call(c, "GetQueryResult", QUERY_RULE_ID)
  \/ \E c \in Callers : GetStatusRule(c)
  \/ \E c \in Callers : GetQueryResult(c)
  \/ \E c \in Callers : GetQueryResultErr(c)
  \/ \E c \in Callers : GetQueryResultDrain(c)

SpecStatus == InitStatus /\ [][NextStatus]_vars

\* ================================================================ claims
\* A call of caller c returns in this step.
Returns(c) == pc[c] # "idle" /\ pc'[c] = "idle"

\* C1: after StartRule(id) has returned success (no StopRule, DropRule or
\* RestartRule of id having overlapped it), and until the pipeline completes
\* or one of those calls is issued, GetStatusRule(id) answers "Running with
\* metrics:".
C1_RunningAfterStart ==
  \A id \in RuleIds : live[id] => StatusOf(id).reply = Running

\* C2 as stated: once StopRule(id) has returned for a registered id, and no
\* CreateRule, StartRule or RestartRule of id is issued afterwards,
\* GetStatusRule(id) answers "Stopped: canceled manually." (a start issued
\* before the StopRule returned is not one issued afterwards).
C2_ManualAfterStopIssuedOnly ==
  \A id \in RuleIds :
    stopped[id] \in {"yes", "racing"} /\ registry[id] # NoHandle
      => StatusOf(id) = [err |-> "nil", reply |-> Manual]

\* C2 as amended: once StopRule(id) has returned for a registered id, no
\* CreateRule, StartRule or RestartRule of id having overlapped that call and
\* none being issued afterwards, GetStatusRule(id) answers exactly
\* "Stopped: canceled manually.", whatever the pipeline and its monitors do.
C2_ManualAfterStop ==
  \A id \in RuleIds :
    stopped[id] = "yes" /\ registry[id] # NoHandle
      => StatusOf(id) = [err |-> "nil", reply |-> Manual]

\* C2's case: the rule was stopped and afterwards a monitor has recorded the
\* error its pipeline completed with.
C2_Witness ==
  /\ stopped["r1"] = "yes"
  /\ registry["r1"] # NoHandle
  /\ heap[registry["r1"]].seterr = "other"

\* C3: a RestartRule(id) issued on a running rule that returns success (no
\* other start or stop of id having overlapped it) leaves an entry for id with
\* Triggered set and a handle other than the one that was registered when the
\* call was issued.
C3_RestartNewHandle ==
  [][\A c \in Callers :
       (Returns(c) /\ op[c] = "RestartRule" /\ pre[c].running /\ pre[c].alone
          /\ out'.err = "nil")
         => /\ registry'[arg[c]] # NoHandle
            /\ heap'[registry'[arg[c]]].Triggered
            /\ registry'[arg[c]] # pre[c].h]_vars

\* C4: when DropRule(id) returns success (no start of id having overlapped
\* it) the registry holds no entry for id.
C4_DropRemovesEntry ==
  [][\A c \in Callers :
       (Returns(c) /\ op[c] = "DropRule" /\ pre[c].alone /\ out'.err = "nil")
         => registry'[arg[c]] = NoHandle]_vars

\* C8: no handle is orphaned: every RuleState that was created and whose
\* context has not been cancelled is the registry's entry for its id.
C8_NoOrphan ==
  \A h \in Handles :
    (h <= nalloc /\ heap[h].Name \in RuleIds /\ CtxErr(heap[h]) = "nil")
      => registry[heap[h].Name] = h

\* C5: in every reachable state at most one ad-hoc query handle is live
\* (created by ExecQuery, its context reporting no error), and a live one is
\* the entry of the reserved id, or about to be: the CreateQuery that created
\* it has yet to register it.
C5_OneLiveQuery ==
  LET Live == {h \in 1..nalloc :
                 heap[h].Name = QUERY_RULE_ID /\ CtxErr(heap[h]) = "nil"}
  IN /\ Cardinality(Live) <= 1
     /\ \A h \in Live :
          \/ registry[QUERY_RULE_ID] = h
          \/ \E c \in Callers : pc[c] = "register" /\ rs[c] = h

\* C6: when two CreateQuery calls succeed one after the other, no other
\* CreateQuery overlapping them, then by the time ExecQuery starts the second
\* query the first one's handle has received Cancel and the reserved id has no
\* entry, and when the second call returns the entry of the reserved id is the
\* second handle, with Triggered set.
C6_SecondReplacesFirst ==
  [][\A c \in Callers :
       /\ (pc[c] = "ExecQuery" /\ pc'[c] = "register" /\ pre[c].alone /\ succ # <<>>)
            => /\ heap[succ[Len(succ)]].cancelled
               /\ registry[QUERY_RULE_ID] = NoHandle
       /\ (Returns(c) /\ op[c] = "CreateQuery" /\ Len(succ') = 2)
            => /\ registry'[QUERY_RULE_ID] = succ'[2]
               /\ heap'[succ'[2]].Triggered
               /\ heap'[succ'[1]].cancelled]_vars

\* C7: a tick of the watchdog that found the entry of the reserved id and
\* found it stale ends with no entry under the reserved id (so that a
\* GetQueryResult issued then finds none and returns no error) and with the
\* handle it found cancelled; and up to its call of stopQuery a tick changes
\* neither the registry nor a handle.
C7_TickReclaims ==
  [][/\ (pc["wd"] \in {"stopQuery", "stopQueryDelete"} /\ pc'["wd"] = "idle")
          => /\ registry'[QUERY_RULE_ID] = NoHandle
             /\ heap'[pre["wd"].h].cancelled
     /\ (pc["wd"] \in {"idle", "watch", "stale"} /\ pc'["wd"] # pc["wd"])
          => UNCHANGED <<registry, heap>>]_vars

\* C9: GetStatusRule(id) returns the not-found error when id has no entry,
\* and else succeeds with the reply the seven-way classification of
\* (Triggered, context present, context error) gives; it changes neither the
\* registry nor a RuleState nor a handle.
C9_StatusClassification ==
  [][\A c \in Callers :
       (Returns(c) /\ op[c] = "GetStatusRule") =>
         LET h == registry[arg[c]]
             t == heap[h]
         IN /\ UNCHANGED <<registry, heap>>
            /\ IF h = NoHandle
               THEN out'.err = "Rule is not found"
               ELSE /\ out'.err = "nil"
                    /\ out'.reply =
                         CASE ~t.Triggered -> "Stopped: canceled manually."
                           [] t.Triggered /\ ~t.ctx -> "Stopped: no context found."
                           [] t.Triggered /\ t.ctx /\ CtxErr(t) = "nil" ->
                                "Running with metrics:"
                           [] t.Triggered /\ t.ctx /\ CtxErr(t) = "Canceled" ->
                                "Stopped: canceled by error."
                           [] t.Triggered /\ t.ctx /\ CtxErr(t) = "DeadlineExceeded" ->
                                "Stopped: deadline exceed."
                           [] OTHER -> "Stopped: " \o CtxErr(t) \o "."]_vars

\* C9's case: GetStatusRule has answered for an entry whose context reports
\* the deadline-exceeded sentinel.
C9_Witness ==
  /\ out = [err |-> "nil", reply |-> "Stopped: deadline exceed."]
  /\ registry["r1"] # NoHandle
  /\ heap[registry["r1"]].Triggered
  /\ CtxErr(heap[registry["r1"]]) = "DeadlineExceeded"

\* C10: GetQueryResult returns the context's error when the reserved id has
\* an entry whose context is present and reports a non-nil error, and then no
\* step of the call changes LastFetch or Results; in every other case it
\* returns no error.
C10_FetchFailsOnDeadQuery ==
  [][\A c \in Callers :
       (op[c] = "GetQueryResult" /\ pc'[c] # pc[c]) =>
         LET h == registry[QUERY_RULE_ID]
             dead == h # NoHandle /\ heap[h].ctx /\ CtxErr(heap[h]) # "nil"
         IN /\ dead => UNCHANGED <<sinceFetch, Results>>
            /\ Returns(c) => out'.err = IF dead THEN CtxErr(heap[h]) ELSE "nil"]_vars

\* C10's case: GetQueryResult has failed with the error of the query's
\* context while a fragment was waiting in Results.
C10_Witness ==
  /\ out.err \in {"Canceled", "DeadlineExceeded", "other"}
  /\ registry[QUERY_RULE_ID] # NoHandle
  /\ CtxErr(heap[registry[QUERY_RULE_ID]]) = out.err
  /\ Results = <<"row">>
  /\ sinceFetch = StaleSeconds

\* C11: a GetQueryResult that returns no error has set LastFetch to the
\* current time, and when it found fragments in Results its reply is their
\* concatenation in order and it leaves Results holding no fragment.
C11_FetchDrains ==
  [][\A c \in Callers :
       (Returns(c) /\ op[c] = "GetQueryResult" /\ out'.err = "nil")
         => /\ sinceFetch' = 0
            /\ Len(Results) > 0 => (out'.reply = Join(Results) /\ Len(Results') = 0)]_vars

\* C12: StopRule(id) for an id with no registry entry returns no error with
\* the reply "Rule was not found." and changes neither the registry nor a
\* RuleState nor a handle, each time it is called.
C12_StopUnknownRule ==
  [][\A c \in Callers :
       (pc[c] = "StopRule" /\ op[c] = "StopRule" /\ pc'[c] # pc[c]
          /\ registry[arg[c]] = NoHandle)
         => /\ Returns(c)
            /\ out' = [err |-> "nil", reply |-> "Rule was not found."]
            /\ UNCHANGED <<registry, heap, mon>>]_vars

\* C12's case: two StopRule calls have been answered for an id that never had
\* an entry.
C12_Witness ==
  /\ ncalls = 2
  /\ \A c \in Callers : pc[c] = "idle"
  /\ out = [err |-> "nil", reply |-> "Rule was not found."]
  /\ nalloc = 0
  /\ store = {}

\* C13: a StartRule(id) that finds no entry fails with the store's error when
\* the store has no rule id, and with the initialization error when
\* ExecInitRule fails; no step of a StartRule that returns an error changes the
\* registry or a RuleState or spawns a monitor.
C13_StartRuleFails ==
  [][\A c \in Callers :
       /\ (pc[c] = "GetRuleByName" /\ op[c] = "StartRule" /\ pc'[c] # pc[c]
             /\ arg[c] \notin store)
            => (Returns(c) /\ out'.err = "not found in store")
       /\ (op[c] = "StartRule" /\ pc'[c] # pc[c]
             /\ (pc[c] \in {"StartRule", "GetRuleByName"}
                   \/ (Returns(c) /\ out'.err # "nil")))
            => UNCHANGED <<registry, heap, mon>>
       /\ (Returns(c) /\ op[c] = "StartRule" /\ out'.err # "nil")
            => /\ pre[c].h = NoHandle
               /\ out'.err \in {"not found in store", "init error"}]_vars

\* C13's case: a StartRule has failed in ExecInitRule for a stored rule, and
\* the rule has no entry and no monitor.
C13_Witness ==
  /\ out.err = "init error"
  /\ "r1" \in store
  /\ registry["r1"] = NoHandle
  /\ mon = EmptyBag
  /\ ncalls >= 1

\* C14: when StartUp reaches http.Serve it has called StartRule once for every
\* rule name of the store, whatever the earlier calls returned, and every rule
\* whose StartRule returned no error has an entry with Triggered set whose
\* handle has a monitor (or had one, which has cancelled it on completion).
C14_StartUpStartsEveryRule ==
  serving =>
    /\ Len(booted) = Cardinality(store)
    /\ {booted[i].name : i \in DOMAIN booted} = store
    /\ \A i \in DOMAIN booted :
         booted[i].err = "nil" =>
           LET h == registry[booted[i].name]
           IN /\ h # NoHandle
              /\ heap[h].Triggered
              /\ \/ \E m \in BagToSet(mon) : m.tp = h
                 \/ heap[h].cancelled

\* C14's case: StartUp is over, its first StartRule failed and its second
\* one, for another rule, has left an entry and a monitor.
C14_Witness ==
  /\ serving
  /\ Len(booted) = 2
  /\ booted[1].err # "nil"
  /\ booted[2].err = "nil"
  /\ registry[booted[1].name] = NoHandle
  /\ registry[booted[2].name] # NoHandle
  /\ \E m \in BagToSet(mon) : m.tp = registry[booted[2].name]

\* C15: a monitor that has received completion value e records e on the
\* context and only then cancels the topology and ends; a monitor's step
\* changes neither the registry nor a Triggered flag; once e is recorded the
\* rule, Triggered still set, is reported as "Stopped: e." (after the Cancel, for
\* a nil e, as "Stopped: canceled by error."), never as running or as canceled
\* manually; and with the monitors scheduled fairly every completion signalled
\* is received and handled to the end.
C15_MonitorRecordsThenCancels ==
  /\ [][\A m \in BagToSet(mon) :
          /\ (m.pc = "SetError" /\ mon' = MonitorStep(m, [m EXCEPT !.pc = "Cancel"]))
               => /\ heap'[m.tp].seterr = m.err
                  /\ registry' = registry
                  /\ heap'[m.tp].Triggered = heap[m.tp].Triggered
                  /\ (heap'[m.tp].Triggered /\ m.err # "nil")
                       => StatusOfState(heap'[m.tp]) = "Stopped: " \o m.err \o "."
          /\ (m.pc # "Open" /\ mon' = MonitorEnds(m))
               => /\ m.pc = "Cancel"
                  /\ heap'[m.tp].cancelled
                  /\ registry' = registry
                  /\ heap'[m.tp].Triggered = heap[m.tp].Triggered
                  /\ heap'[m.tp].Triggered
                       => StatusOfState(heap'[m.tp]) \notin {Running, Manual}]_vars
  /\ \A h \in Handles :
       (heap[h].drain # NoSig) ~>
         (/\ heap[h].drain = NoSig
          /\ heap[h].cancelled
          /\ \A m \in BagToSet(mon) : m.tp = h => m.pc \in {"Open", "receive"})

\* C15's case: the pipeline of a started rule has completed with an error, and
\* its monitor has recorded it, cancelled the topology and ended.
C15_Witness ==
  /\ registry["r1"] # NoHandle
  /\ heap[registry["r1"]].Triggered
  /\ heap[registry["r1"]].seterr = "other"
  /\ heap[registry["r1"]].cancelled
  /\ ~heap[registry["r1"]].executing
  /\ mon = EmptyBag
  /\ StatusOf("r1").reply = "Stopped: other."

\* C16: in every reachable state no topology has two monitors blocked on its
\* completion channel.
C16_OneMonitorPerHandle ==
  \A m \in BagToSet(mon) : m.pc = "receive" => CopiesIn(m, mon) <= 1

\* C17: every control call on a rule returns, whether or not the rule's
\* pipeline ever signals its completion and whether or not a monitor ever
\* runs: no step of a handler waits for the topology.
C17_ControlCallsReturn ==
  \A c \in Callers : (pc[c] # "idle") ~> (pc[c] = "idle")

\* C17's case: StopRule has returned for a rule whose execution has not ended
\* and whose monitor is still blocked on the completion channel.
C17_Witness ==
  /\ out.reply = "Rule was stopped."
  /\ \A c \in Callers : pc[c] = "idle"
  /\ registry["r1"] # NoHandle
  /\ heap[registry["r1"]].executing
  /\ heap[registry["r1"]].cancelled
  /\ \E m \in BagToSet(mon) : m.tp = registry["r1"] /\ m.pc = "receive"

\* C18: when the watchdog removes the entry of the reserved id, at least
\* StaleSeconds have passed since the CreateQuery that registered the entry and
\* since the last GetQueryResult that succeeded.
C18_ReclaimedOnlyWhenSilent ==
  [][(pc["wd"] = "stopQueryDelete" /\ pc'["wd"] = "idle"
        /\ registry[QUERY_RULE_ID] # NoHandle)
       => (sinceCreate >= StaleSeconds /\ sinceFetch >= StaleSeconds)]_vars

\* C19: a monitor acts only on the run whose completion it received: that run
\* has ended, so when the monitor records the error and when it cancels, the
\* topology is not executing (an execution in progress then is a later run).
C19_MonitorActsOnOwnRun ==
  [][\A m \in BagToSet(mon) :
       \/ (m.pc = "SetError" /\ mon' = MonitorStep(m, [m EXCEPT !.pc = "Cancel"]))
       \/ (m.pc = "Cancel" /\ mon' = MonitorEnds(m))
       => ~heap[m.tp].executing]_vars

\* The reserved id has an entry whose context reports an error: what
\* GetQueryResult answers with that error.
DeadQuery ==
  /\ registry[QUERY_RULE_ID] # NoHandle
  /\ QueryFailed(heap[registry[QUERY_RULE_ID]])

\* C20: a GetQueryResult that returns the context's error leaves lastFetch as
\* it was, and a dead entry of the reserved id does not stay: however the
\* consumer polls, as long as the watchdog keeps ticking the entry is
\* eventually removed (or replaced by a CreateQuery), the handle that died
\* being cancelled, and GetQueryResult no longer finds a dead query.
C20_DeadQueryReclaimed ==
  /\ [][\A c \in Callers :
         Returns(c) /\ op[c] = "GetQueryResult" /\ out'.err # "nil"
           => sinceFetch' = sinceFetch]_vars
  /\ [](\A h \in Handles : QueryFailed(heap[h]) => heap[h].cancelled)
  /\ DeadQuery ~> ~DeadQuery

\* C20's case: the query died with an error, a GetQueryResult returned that
\* error, and the watchdog has removed the entry.
C20_Witness ==
  /\ out.err = "other"
  /\ registry[QUERY_RULE_ID] = NoHandle
  /\ nalloc = 1
  /\ heap[1].seterr = "other"
  /\ heap[1].cancelled
  /\ pc["wd"] = "idle"
  /\ \A c \in Callers : pc[c] = "idle"

====
